---- MODULE Spec2Model ----
(***************************************************************************)
(* Model of the Morphine analytics service: the stream registry            *)
(* (VideoIngestionPipeline / StreamHandler), the per-frame pipeline        *)
(* (process_video_frame, POST /analytics/process_frame) and the analytics  *)
(* store (RedisService) of src/analytics.                                  *)
(*                                                                         *)
(* Coroutines of the service run on one asyncio event loop and interleave  *)
(* at every await; each StreamHandler owns one OS thread that runs         *)
(* _process_frames.  A coroutine is a record in `tasks` whose pc names the *)
(* next Redis command it will issue; one action executes the code up to    *)
(* and including that command.  `expire` calls only refresh a TTL; the     *)
(* lapse of the latest record's TTL is the action ExpireLatest.            *)
(***************************************************************************)
EXTENDS Integers, Sequences, FiniteSets, TLC

\* ---------------------------------------------------------------- bounds
MaxTasks    == 2   \* coroutines in flight at once
MaxRecords  == 2   \* zadd calls in one run, all streams together
MaxFrameIdx == 2   \* largest frame_count / request.frame_idx
MaxIds      == 2   \* track ids handed out by the tracker in one run
MaxHits     == 3   \* largest hits a track reaches
MaxDet      == 1   \* detections in one frame
MaxTracks   == 2   \* tracks in the tracker result of one record
MaxRows     == 1002 \* rows the system_metrics list is let grow to
MaxProbes   == 3   \* health cycles in one run
MaxVaried   == 2   \* streams of stream_metrics whose metrics vary
MaxFill     == 8   \* further streams, all active, watched and healthy
MaxAssoc    == 2   \* tracks, and detections, in one association
MaxPoses    == 3   \* poses analysed by one PoseAnalyzer
MaxStores   == 3   \* records stored since initialize_stream, for the averages
MaxListed   == 2   \* stream ids the core service lists to the supervisor

Streams  == {"A", "B"}
Managed  == {"A"}                     \* the streams that receive requests
Slots    == 1..MaxTasks
Settings == {"hq"}                    \* settings dict of a request
EmptySettings == "empty"              \* the {} of update_stream_summary

\* ------------------------------------------------------------- variables
VARIABLES
  active_streams,   \* VideoIngestionPipeline.active_streams (its keys)
  handler,          \* per stream: the StreamHandler in active_streams
  orphans,          \* per stream: frames held by threads that outlived stop()
  tasks,            \* coroutines in flight on the event loop
  hist,             \* morphine:analytics:{id}          (sorted set)
  latest,           \* morphine:analytics:{id}:latest   (string)
  summary,          \* morphine:stream:{id}:summary     (hash)
  state,            \* morphine:stream:{id}:state       (hash)
  patched,          \* stream:{id}:settings             (hash)
  written,          \* history: frame_idx of every zadd, in call order
  storeCount,       \* history: store_analytics calls returned since initialize
  reply,            \* history: the answer given by the step just taken
  prevStop,         \* history: what the latest stop left, until anything else runs
  tracks,           \* vibrio_analyzer.tracker.tracks: track_id -> TrackState
  next_id,          \* vibrio_analyzer.tracker.next_id
  upd,              \* history: the latest HumanTracker.update call and its result
  given,            \* history: per stream, the track ids created by its frames
  job,              \* the frame in the frame pipeline, and what became of it
  ev,               \* the record given to event derivation, and what it emitted
  service_health,   \* orchestrator.service_health: service -> status
  probe,            \* history: unhealthy counts of the latest two health cycles
  system_metrics,   \* length of the Redis list "system_metrics"
  stream_metrics,   \* orchestrator.stream_metrics, in insertion order
  issued,           \* history: requests issued by the latest decision cycle
  feed,             \* one StreamHandler with its source, config and settings hash
  assoc,            \* one _associate_detections_to_tracks call and its result
  pose,             \* one PoseAnalyzer and the result of its last analyze_pose
  stats,            \* the averages of one summary hash and the records behind them
  watch             \* the supervisor's stream_metrics over several collections

svcVars == << active_streams, handler, orphans, tasks, hist, latest,
              summary, state, patched, written, storeCount, reply, prevStop >>

trkVars == << tracks, next_id, upd, given >>

orchVars == << service_health, probe, system_metrics, stream_metrics, issued >>

lateVars == << assoc, pose, stats, watch >>
extVars == << ev, orchVars, feed, lateVars >>

vars == << svcVars, trkVars, job, extVars >>

\* ------------------------------------------------------------ Redis hash
EmptyHash == [f \in {} |-> 0]

\* HSET key mapping: fields of m overwrite, the other fields of h stay
HSet(h, m) ==
  [f \in (DOMAIN h) \cup (DOMAIN m) |-> IF f \in DOMAIN m THEN m[f] ELSE h[f]]

\* int(current_summary.get("total_frames", 0))
TotalFrames(h) == IF "total_frames" \in DOMAIN h THEN h["total_frames"] ELSE 0

\* a stored AnalyticsResult, identified by its frame_idx
NoRecord == [idx |-> 0]

\* the keys of a stream that exist in the store
Keys(h, l, su, st, p) ==
  (IF h # {} THEN {"analytics"} ELSE {}) \cup
  (IF l # NoRecord THEN {"latest"} ELSE {}) \cup
  (IF DOMAIN su # {} THEN {"summary"} ELSE {}) \cup
  (IF DOMAIN st # {} THEN {"state"} ELSE {}) \cup
  (IF DOMAIN p # {} THEN {"settings"} ELSE {})

KeysOf(s) == Keys(hist[s], latest[s], summary[s], state[s], patched[s])

\* ------------------------------------------------------------ coroutines
\* kind: "cb" process_video_frame, "http" process_frame, "start", "stop"
\* pc: the next command; rd: total_frames read by hgetall; arg: settings
NoTask == [kind |-> "none", s |-> "-", idx |-> 0, pc |-> "-",
           rd |-> 0, arg |-> "-"]

NewTask(kind, s, idx, pc, arg) ==
  [kind |-> kind, s |-> s, idx |-> idx, pc |-> pc, rd |-> 0, arg |-> arg]

Live == {i \in Slots : tasks[i].kind # "none"}
FreeSlots == Slots \ Live
FreeSlot == CHOOSE i \in FreeSlots : \A j \in FreeSlots : i <= j

\* a coroutine ends: the ones created after it move up, so that `tasks` lists
\* the coroutines in flight in creation order
Done(i) ==
  [j \in Slots |-> IF j < i THEN tasks[j]
                   ELSE IF j + 1 \in Slots THEN tasks[j + 1] ELSE NoTask]

FrameTasks(s) == {i \in Live : tasks[i].kind \in {"cb", "http"} /\ tasks[i].s = s}

\* StreamHandler.stop blocks the event loop in processing_thread.join
LoopBlocked == \E i \in Live : tasks[i].pc = "join"

\* StreamHandler: thread is the position of _process_frames
\*   "loop" at `while self.is_running`, "read" inside capture.read(),
\*   "exited" after the loop was left
NoHandler == [is_running |-> FALSE, frame_count |-> 0, thread |-> "none"]

\* phase "stop": only stop requests of s ran since that stop returned (n of
\* them have returned, counted up to 2); phase "start": then one start request
\* of s began, and nothing else; phase "started": and it has returned
NoStop  == [s |-> "-", phase |-> "-", act |-> {}, keys |-> {}, n |-> 0]
NoReply == [op |-> "-", s |-> "-", wasActive |-> FALSE, success |-> TRUE]

\* no HumanTracker.update call yet
NoUpdate == [s |-> "-", detections |-> 0, matched |-> {}, created |-> {},
             removed |-> {}, emitted |-> {}]

\* kind "cb" process_video_frame, "http" process_frame; vOut / mOut how the
\* two analyzers ended; vibrio, moriarty, error the fields of the record;
\* stored the keys written by store_analytics; sends the notification posts
\* made; checked the event derivations run; response the answer of
\* process_frame
NoJob == [kind |-> "-", s |-> "-", idx |-> 0, pc |-> "idle", decoded |-> FALSE,
          vOut |-> "-", mOut |-> "-", vibrio |-> "-", moriarty |-> "-",
          error |-> "none", storeCalls |-> 0, stored |-> {}, sends |-> 0,
          sendFailed |-> FALSE, checked |-> {}, response |-> "-", http |-> 0]

\* settings: the hash stream:{id}:settings; used: the config the latest
\* frame was read with and the settings hash at that time; cause: why
\* _process_frames left its loop
NoPatch == [quality |-> "-", fps |-> 0]
NoFrame == [config |-> NoPatch, wanted |-> NoPatch]
NoFeed == [listed |-> FALSE, source_type |-> "-", is_running |-> FALSE,
           thread |-> "none", opened |-> FALSE, attempts |-> 0,
           frame_count |-> 0, config |-> NoPatch, settings |-> NoPatch,
           used |-> NoFrame, cause |-> "-"]

\* a PoseAnalyzer after construction: previous_landmarks is None
NoLandmarks == << >>
NoPose == [poses |-> 0, previous_landmarks |-> NoLandmarks, pose_detected |-> FALSE,
           joint_angles |-> {}, velocities |-> << >>]

\* the averages of initial_summary; a number is a fraction << p, q >> in
\* lowest terms, and since holds the records stored since initialize_stream
Zero == << 0, 1 >>
InitialStats == [total_frames |-> 0, avg_processing_time |-> Zero,
                 detection_rate |-> Zero, pose_detection_rate |-> Zero,
                 avg_fps |-> Zero, since |-> << >>]

\* the supervisor after construction: stream_metrics = {}; listed is the
\* latest answered listing of /api/streams, requests the stream ids the
\* latest decision cycle sent requests for
NoWatch == [stream_metrics |-> << >>, listed |-> {}, answered |-> FALSE,
            requests |-> {}]

\* no association has been computed
NoAssoc == [called |-> FALSE, tracks |-> 0, detections |-> 0,
            geo |-> << >>, confidence |-> << >>, matches |-> {},
            unmatched_tracks |-> {}, unmatched_detections |-> {}]

\* no decision cycle has run
NoCycle == [ran |-> FALSE, requests |-> << >>]

\* no health cycle has run
NoProbe == [n |-> 0, prev |-> 0, cur |-> 0, emergency |-> FALSE]

\* no record has been through event derivation
NoEvents == [rec |-> [timestamp |-> 0], high_speed |-> {}, pose |-> {},
             alerts |-> << >>]

\* A stream outside Managed is a bystander: its keys are either absent or
\* as one earlier POST /analytics/process_frame with frame_idx 1 left them.
Bystander(s, had) ==
  IF had
  THEN [hist |-> {[idx |-> 1]}, latest |-> [idx |-> 1],
        summary |-> [total_frames |-> 1],
        state |-> [status |-> "active", settings |-> EmptySettings],
        written |-> << 1 >>, storeCount |-> 1]
  ELSE [hist |-> {}, latest |-> NoRecord, summary |-> EmptyHash,
        state |-> EmptyHash, written |-> << >>, storeCount |-> 0]

Init ==
  \E had \in BOOLEAN :
  /\ active_streams = {}
  /\ handler = [s \in Streams |-> NoHandler]
  /\ orphans = [s \in Streams |-> {}]
  /\ tasks = [i \in Slots |-> NoTask]
  /\ hist = [s \in Streams |-> Bystander(s, had /\ s \notin Managed).hist]
  /\ latest = [s \in Streams |-> Bystander(s, had /\ s \notin Managed).latest]
  /\ summary = [s \in Streams |-> Bystander(s, had /\ s \notin Managed).summary]
  /\ state = [s \in Streams |-> Bystander(s, had /\ s \notin Managed).state]
  /\ patched = [s \in Streams |-> EmptyHash]
  /\ written = [s \in Streams |-> Bystander(s, had /\ s \notin Managed).written]
  /\ storeCount = [s \in Streams |-> Bystander(s, had /\ s \notin Managed).storeCount]
  /\ reply = NoReply
  /\ prevStop = NoStop
  /\ tracks = EmptyHash
  /\ next_id = 0
  /\ upd = NoUpdate
  /\ given = [s \in Streams |-> {}]
  /\ job = NoJob
  /\ ev = NoEvents
  /\ service_health = EmptyHash
  /\ probe = NoProbe
  /\ system_metrics = 0
  /\ stream_metrics = << >>
  /\ issued = NoCycle
  /\ feed = NoFeed
  /\ assoc = NoAssoc
  /\ pose = NoPose
  /\ stats = InitialStats
  /\ watch = NoWatch

\* ------------------------------------------------------- history helpers
\* a step that belongs to no stop or start request
OtherStep == prevStop' = NoStop /\ reply' = NoReply
\* a step of a stop request of stream s
StopStep(s) ==
  prevStop' = IF prevStop.s = s /\ prevStop.phase = "stop" THEN prevStop ELSE NoStop
\* a start request of stream s begins
StartStep(s) ==
  prevStop' = IF prevStop.s = s /\ prevStop.phase = "stop"
              THEN [prevStop EXCEPT !.phase = "start"] ELSE NoStop
\* a later step of that start request; the last one makes it "started"
StartCont(s, last) ==
  prevStop' = IF prevStop.s = s /\ prevStop.phase = "start"
              THEN [prevStop EXCEPT !.phase = IF last THEN "started" ELSE @]
              ELSE NoStop

SumLen(S) == IF S = {} THEN 0 ELSE
  LET RECURSIVE Sum(_)
      Sum(T) == IF T = {} THEN 0
                ELSE LET x == CHOOSE y \in T : TRUE IN Len(written[x]) + Sum(T \ {x})
  IN Sum(S)

Budget ==
  SumLen(Streams) + Cardinality({i \in Live : tasks[i].pc = "zadd"})
    < MaxRecords

\* ------------------------------------------- POST /analytics/start_stream
\* VideoIngestionPipeline.start_stream finds the stream in active_streams and
\* returns False; start_stream_analytics raises and answers 500.
StartAlreadyActive(s) ==
  /\ ~LoopBlocked
  /\ s \in active_streams
  /\ reply' = [op |-> "start", s |-> s, wasActive |-> TRUE, success |-> FALSE]
  /\ prevStop' = NoStop
  /\ UNCHANGED << active_streams, handler, orphans, tasks, hist, latest,
                  summary, state, patched, written, storeCount >>
  /\ UNCHANGED << trkVars, job, extVars >>

\* StreamHandler.start: _initialize_capture fails, start_stream returns False
StartOpenFails(s) ==
  /\ ~LoopBlocked
  /\ s \notin active_streams
  /\ reply' = [op |-> "start", s |-> s, wasActive |-> FALSE, success |-> FALSE]
  /\ prevStop' = NoStop
  /\ UNCHANGED << active_streams, handler, orphans, tasks, hist, latest,
                  summary, state, patched, written, storeCount >>
  /\ UNCHANGED << trkVars, job, extVars >>

\* the capture opens: the handler is registered, its thread started, and the
\* request goes on to redis_service.initialize_stream(stream_id, settings)
StartStream(s, settings) ==
  /\ ~LoopBlocked
  /\ s \notin active_streams
  /\ FreeSlots # {}
  /\ active_streams' = active_streams \cup {s}
  /\ handler' = [handler EXCEPT ![s] =
                   [is_running |-> TRUE, frame_count |-> 0, thread |-> "loop"]]
  /\ tasks' = [tasks EXCEPT ![FreeSlot] =
                 NewTask("start", s, 0, "init_state", settings)]
  /\ StartStep(s)
  /\ reply' = NoReply
  /\ UNCHANGED << orphans, hist, latest, summary, state, patched,
                  written, storeCount >>
  /\ UNCHANGED << trkVars, job, extVars >>

\* -------------------------------- POST /analytics/stop_stream/{stream_id}
\* VideoIngestionPipeline.stop_stream: "False" for a stream that is not
\* active, "True" after a stop; every exception is caught inside it.
StopStreamRaises(isActive) == IF isActive THEN "True" ELSE "raise"
StopStreamReturns(isActive) == IF isActive THEN "True" ELSE "False"

StopStream(s) ==
  /\ ~LoopBlocked
  /\ LET r == StopStreamReturns(s \in active_streams) IN
     IF r = "raise"
     THEN \* stop_stream_analytics answers 500
          /\ reply' = [op |-> "stop", s |-> s,
                       wasActive |-> s \in active_streams, success |-> FALSE]
          /\ UNCHANGED << active_streams, handler, tasks >>
     ELSE
       /\ FreeSlots # {}
       /\ reply' = NoReply
       /\ IF s \notin active_streams
          THEN /\ tasks' = [tasks EXCEPT ![FreeSlot] =
                              NewTask("stop", s, 0, "cl_del", "inactive")]
               /\ UNCHANGED << active_streams, handler >>
          ELSE IF handler[s].thread \in {"loop", "read"}
          THEN \* StreamHandler.stop: is_running = False, then join(timeout=5.0)
               /\ handler' = [handler EXCEPT ![s].is_running = FALSE]
               /\ tasks' = [tasks EXCEPT ![FreeSlot] =
                              NewTask("stop", s, 0, "join", "active")]
               /\ UNCHANGED active_streams
          ELSE \* the thread is not alive: release and unregister at once
               /\ handler' = [handler EXCEPT ![s] = NoHandler]
               /\ active_streams' = active_streams \ {s}
               /\ tasks' = [tasks EXCEPT ![FreeSlot] =
                              NewTask("stop", s, 0, "cl_del", "active")]
  /\ StopStep(s)
  /\ UNCHANGED << orphans, hist, latest, summary, state, patched,
                  written, storeCount >>
  /\ UNCHANGED << trkVars, job, extVars >>

\* join returns because the thread has exited, or after the 5 s timeout with
\* the thread still alive; then capture.release() and del active_streams[s].
\* A thread left inside capture.read() may still come back with a frame.
JoinReturns(i) ==
  /\ i \in Live
  /\ tasks[i].pc = "join"
  /\ LET s == tasks[i].s IN
     /\ orphans' = [orphans EXCEPT ![s] =
          IF handler[s].thread = "read" /\ handler[s].frame_count < MaxFrameIdx
          THEN @ \cup {handler[s].frame_count + 1} ELSE @]
     /\ handler' = [handler EXCEPT ![s] = NoHandler]
     /\ active_streams' = active_streams \ {s}
     /\ tasks' = [tasks EXCEPT ![i].pc = "cl_del"]
     /\ StopStep(s)
  /\ reply' = NoReply
  /\ UNCHANGED << hist, latest, summary, state, patched, written,
                  storeCount >>
  /\ UNCHANGED << trkVars, job, extVars >>

\* -------------------------------------------- StreamHandler._process_frames
\* `while self.is_running:` then capture.read()
ThreadLoop(s) ==
  /\ s \in active_streams
  /\ handler[s].thread = "loop"
  /\ handler' = [handler EXCEPT ![s].thread =
                   IF handler[s].is_running THEN "read" ELSE "exited"]
  /\ OtherStep
  /\ UNCHANGED << active_streams, orphans, tasks, hist, latest, summary,
                  state, patched, written, storeCount >>
  /\ UNCHANGED << trkVars, job, extVars >>

\* the frame callback of start_stream_analytics:
\*   asyncio.create_task(process_video_frame(stream_id, frame, frame_idx))
\* hands a new coroutine to the event loop; when the call raises (it is made
\* on the handler's thread), _process_frames logs the error and the frame is
\* lost
FrameCallback(s, idx, raises) ==
  IF raises THEN UNCHANGED tasks
  ELSE /\ FreeSlots # {}
       /\ Budget
       /\ tasks' = [tasks EXCEPT ![FreeSlot] = NewTask("cb", s, idx, "zadd", "-")]

\* capture.read() returns a frame: frame_count += 1 and the callback is called
ThreadFrame(s, raises) ==
  /\ s \in active_streams
  /\ handler[s].thread = "read"
  /\ handler[s].frame_count < MaxFrameIdx
  /\ handler' = [handler EXCEPT ![s].thread = "loop", ![s].frame_count = @ + 1]
  /\ FrameCallback(s, handler[s].frame_count + 1, raises)
  /\ OtherStep
  /\ UNCHANGED << active_streams, orphans, hist, latest, summary, state,
                  patched, written, storeCount >>
  /\ UNCHANGED << trkVars, job, extVars >>

\* capture.read() fails: the loop is left (end of file, or reconnect_attempts
\* failures in a row) or the read is tried again (retry = TRUE)
ThreadReadFails(s, retry) ==
  /\ s \in active_streams
  /\ handler[s].thread = "read"
  /\ handler' = [handler EXCEPT ![s].thread = IF retry THEN "loop" ELSE "exited"]
  /\ OtherStep
  /\ UNCHANGED << active_streams, orphans, tasks, hist, latest, summary,
                  state, patched, written, storeCount >>
  /\ UNCHANGED << trkVars, job, extVars >>

\* a thread that outlived stop() leaves capture.read(): with a frame whose
\* callback succeeds (gotFrame) a coroutine is scheduled once more; then the
\* thread sees is_running = False and exits
OrphanRead(s, idx, gotFrame) ==
  /\ idx \in orphans[s]
  /\ orphans' = [orphans EXCEPT ![s] = @ \ {idx}]
  /\ FrameCallback(s, idx, ~gotFrame)
  /\ OtherStep
  /\ UNCHANGED << active_streams, handler, hist, latest, summary, state,
                  patched, written, storeCount >>
  /\ UNCHANGED << trkVars, job, extVars >>

\* ----------------------------------------- POST /analytics/process_frame
\* the frame decodes and is analysed; the record has the request's frame_idx
\* and timestamp and goes to redis_service.store_analytics
ProcessFrame(s, idx) ==
  /\ ~LoopBlocked
  /\ FreeSlots # {}
  /\ Budget
  /\ tasks' = [tasks EXCEPT ![FreeSlot] = NewTask("http", s, idx, "zadd", "-")]
  /\ OtherStep
  /\ UNCHANGED << active_streams, handler, orphans, hist, latest,
                  summary, state, patched, written, storeCount >>
  /\ UNCHANGED << trkVars, job, extVars >>

\* ------------------------------- PATCH /analytics/{stream_id}/settings
update_stream_settings(s, settings) ==
  /\ ~LoopBlocked
  /\ patched' = [patched EXCEPT ![s] = HSet(@, [quality |-> settings])]
  /\ OtherStep
  /\ UNCHANGED << active_streams, handler, orphans, tasks, hist, latest,
                  summary, state, written, storeCount >>
  /\ UNCHANGED << trkVars, job, extVars >>

\* ------------------------------------------ RedisService.store_analytics
RecordOf(t) == [idx |-> t.idx]

\* zadd(analytics_key, {analytics_json: timestamp})
Zadd(i) ==
  /\ ~LoopBlocked
  /\ i \in Live
  /\ tasks[i].pc = "zadd"
  /\ LET s == tasks[i].s IN
     /\ hist' = [hist EXCEPT ![s] = @ \cup {RecordOf(tasks[i])}]
     /\ written' = [written EXCEPT ![s] = Append(@, tasks[i].idx)]
  /\ tasks' = [tasks EXCEPT ![i].pc = "setex"]
  /\ OtherStep
  /\ UNCHANGED << active_streams, handler, orphans, latest, summary,
                  state, patched, storeCount >>
  /\ UNCHANGED << trkVars, job, extVars >>

\* setex(latest_key, LATEST_TTL, analytics_json); expire(analytics_key, ...)
Setex(i) ==
  /\ ~LoopBlocked
  /\ i \in Live
  /\ tasks[i].pc = "setex"
  /\ latest' = [latest EXCEPT ![tasks[i].s] = RecordOf(tasks[i])]
  /\ tasks' = [tasks EXCEPT ![i].pc = "hgetall"]
  /\ OtherStep
  /\ UNCHANGED << active_streams, handler, orphans, hist, summary,
                  state, patched, written, storeCount >>
  /\ UNCHANGED << trkVars, job, extVars >>

\* ------------------------------------ RedisService.update_stream_summary
\* current_summary = hgetall(summary_key); an empty one is initialized first
Hgetall(i) ==
  /\ ~LoopBlocked
  /\ i \in Live
  /\ tasks[i].pc = "hgetall"
  /\ LET h == summary[tasks[i].s] IN
     tasks' = [tasks EXCEPT
       ![i].rd = TotalFrames(h),
       ![i].arg = IF DOMAIN h = {} THEN EmptySettings ELSE @,
       ![i].pc = IF DOMAIN h = {} THEN "init_state" ELSE "hset"]
  /\ OtherStep
  /\ UNCHANGED << active_streams, handler, orphans, hist, latest,
                  summary, state, patched, written, storeCount >>
  /\ UNCHANGED << trkVars, job, extVars >>

\* the second hgetall, after initialize_stream(stream_id, {})
Reget(i) ==
  /\ ~LoopBlocked
  /\ i \in Live
  /\ tasks[i].pc = "reget"
  /\ tasks' = [tasks EXCEPT ![i].rd = TotalFrames(summary[tasks[i].s]),
                            ![i].pc = "hset"]
  /\ OtherStep
  /\ UNCHANGED << active_streams, handler, orphans, hist, latest,
                  summary, state, patched, written, storeCount >>
  /\ UNCHANGED << trkVars, job, extVars >>

\* updated_summary: total_frames = the value read + 1
UpdatedSummaryStale(rd) == [total_frames |-> rd]
UpdatedSummary(rd) == [total_frames |-> rd + 1]

\* hset(summary_key, mapping=updated_summary); store_analytics returns
HsetSummary(i) ==
  /\ ~LoopBlocked
  /\ i \in Live
  /\ tasks[i].pc = "hset"
  /\ LET s == tasks[i].s IN
     /\ summary' = [summary EXCEPT ![s] = HSet(@, UpdatedSummary(tasks[i].rd))]
     /\ storeCount' = [storeCount EXCEPT ![s] = @ + 1]
  /\ tasks' = [tasks EXCEPT ![i].pc = "notify"]
  /\ OtherStep
  /\ UNCHANGED << active_streams, handler, orphans, hist, latest, state,
                  patched, written >>
  /\ UNCHANGED << trkVars, job, extVars >>

\* stream_service.notify_analytics_update; the coroutine ends
Notify(i) ==
  /\ ~LoopBlocked
  /\ i \in Live
  /\ tasks[i].pc = "notify"
  /\ tasks' = Done(i)
  /\ OtherStep
  /\ UNCHANGED << active_streams, handler, orphans, hist, latest,
                  summary, state, patched, written, storeCount >>
  /\ UNCHANGED << trkVars, job, extVars >>

\* ---------------------------------------- RedisService.initialize_stream
InitialState(settings) == [status |-> "active", settings |-> settings]
InitialSummary == [total_frames |-> 0]

\* hset(state_key, mapping=initial_state)
InitState(i) ==
  /\ ~LoopBlocked
  /\ i \in Live
  /\ tasks[i].pc = "init_state"
  /\ state' = [state EXCEPT ![tasks[i].s] = HSet(@, InitialState(tasks[i].arg))]
  /\ tasks' = [tasks EXCEPT ![i].pc = "init_summary"]
  /\ IF tasks[i].kind = "start" THEN StartCont(tasks[i].s, FALSE)
                               ELSE prevStop' = NoStop
  /\ reply' = NoReply
  /\ UNCHANGED << active_streams, handler, orphans, hist, latest,
                  summary, patched, written, storeCount >>
  /\ UNCHANGED << trkVars, job, extVars >>

\* hset(summary_key, mapping=initial_summary); initialize_stream returns:
\* to update_stream_summary, or start_stream_analytics answers success
InitSummary(i) ==
  /\ ~LoopBlocked
  /\ i \in Live
  /\ tasks[i].pc = "init_summary"
  /\ LET s == tasks[i].s IN
     /\ summary' = [summary EXCEPT ![s] = HSet(@, InitialSummary)]
     /\ storeCount' = [storeCount EXCEPT ![s] = 0]
     /\ IF tasks[i].kind = "start"
        THEN /\ tasks' = Done(i)
             /\ reply' = [op |-> "start", s |-> s, wasActive |-> FALSE,
                          success |-> TRUE]
             /\ StartCont(s, TRUE)
        ELSE /\ tasks' = [tasks EXCEPT ![i].pc = "reget"]
             /\ reply' = NoReply
             /\ prevStop' = NoStop
  /\ UNCHANGED << active_streams, handler, orphans, hist, latest, state,
                  patched, written >>
  /\ UNCHANGED << trkVars, job, extVars >>

\* a Redis call of the initialize_stream of a start request raises:
\* initialize_stream logs and re-raises, start_stream_analytics answers 500
InitFails(i) ==
  /\ ~LoopBlocked
  /\ i \in Live
  /\ tasks[i].kind = "start"
  /\ tasks[i].pc \in {"init_state", "init_summary"}
  /\ tasks' = Done(i)
  /\ reply' = [op |-> "start", s |-> tasks[i].s, wasActive |-> FALSE,
               success |-> FALSE]
  /\ prevStop' = NoStop
  /\ UNCHANGED << active_streams, handler, orphans, hist, latest, summary,
                  state, patched, written, storeCount >>
  /\ UNCHANGED << trkVars, job, extVars >>

\* ------------------------------------------ RedisService.cleanup_stream
\* delete(state_key)
CleanupDeleteAll(i) ==
  /\ ~LoopBlocked
  /\ i \in Live
  /\ tasks[i].pc = "cl_del"
  /\ state' = [state EXCEPT ![tasks[i].s] = EmptyHash]
  /\ hist' = [hist EXCEPT ![tasks[i].s] = {}]
  /\ latest' = [latest EXCEPT ![tasks[i].s] = NoRecord]
  /\ tasks' = [tasks EXCEPT ![i].pc = "cl_status"]
  /\ StopStep(tasks[i].s)
  /\ reply' = NoReply
  /\ UNCHANGED << active_streams, handler, orphans, summary, patched,
                  written, storeCount >>
  /\ UNCHANGED << trkVars, job, extVars >>
CleanupDelete(i) ==
  /\ ~LoopBlocked
  /\ i \in Live
  /\ tasks[i].pc = "cl_del"
  /\ state' = [state EXCEPT ![tasks[i].s] = EmptyHash]
  /\ tasks' = [tasks EXCEPT ![i].pc = "cl_status"]
  /\ StopStep(tasks[i].s)
  /\ reply' = NoReply
  /\ UNCHANGED << active_streams, handler, orphans, hist, latest,
                  summary, patched, written, storeCount >>
  /\ UNCHANGED << trkVars, job, extVars >>

\* hset(summary_key, "status", "inactive")
CleanupStatus(i) ==
  /\ ~LoopBlocked
  /\ i \in Live
  /\ tasks[i].pc = "cl_status"
  /\ summary' = [summary EXCEPT ![tasks[i].s] = HSet(@, [status |-> "inactive"])]
  /\ tasks' = [tasks EXCEPT ![i].pc = "cl_ended"]
  /\ StopStep(tasks[i].s)
  /\ reply' = NoReply
  /\ UNCHANGED << active_streams, handler, orphans, hist, latest, state,
                  patched, written, storeCount >>
  /\ UNCHANGED << trkVars, job, extVars >>

\* hset(summary_key, "ended_at", now); cleanup_stream returns and
\* stop_stream_analytics answers success
CleanupEnded(i) ==
  /\ ~LoopBlocked
  /\ i \in Live
  /\ tasks[i].pc = "cl_ended"
  /\ LET s == tasks[i].s IN
     /\ summary' = [summary EXCEPT ![s] = HSet(@, [ended_at |-> "now"])]
     /\ reply' = [op |-> "stop", s |-> s, wasActive |-> tasks[i].arg = "active",
                  success |-> TRUE]
     /\ tasks' = Done(i)
  /\ UNCHANGED << active_streams, handler, orphans, hist, latest, state,
                  patched, written, storeCount >>
  /\ LET s == tasks[i].s IN
     prevStop' = IF prevStop.s = s /\ prevStop.phase = "stop"
                 THEN [prevStop EXCEPT !.n = 2]
                 ELSE [s |-> s, phase |-> "stop", act |-> active_streams',
                       keys |-> Keys(hist'[s], latest'[s], summary'[s],
                                     state'[s], patched'[s]),
                       n |-> 1]
  /\ UNCHANGED << trkVars, job, extVars >>

\* ----------------------------------------------------------- TTL lapses
\* LATEST_TTL (300 s) runs out: the latest key is removed.  (Runs are shorter
\* than ANALYTICS_TTL, 1 h, and STREAM_STATE_TTL, 24 h.)
ExpireLatest(s) ==
  /\ "latest" \in KeysOf(s)
  /\ latest' = [latest EXCEPT ![s] = NoRecord]
  /\ OtherStep
  /\ UNCHANGED << active_streams, handler, orphans, tasks, hist, summary,
                  state, patched, written, storeCount >>
  /\ UNCHANGED << trkVars, job, extVars >>

\* ---------------------------------------------------------------- Next
Lifecycle ==
  \E s \in Managed :
    \/ StartAlreadyActive(s)
    \/ StartOpenFails(s)
    \/ \E v \in Settings : StartStream(s, v)
    \/ StopStream(s)

Frames == \E s \in Managed, idx \in 1..MaxFrameIdx : ProcessFrame(s, idx)

Patches == \E s \in Managed, v \in Settings : update_stream_settings(s, v)

\* thread steps that hand no coroutine to the event loop
ThreadsAlone ==
  \E s \in Managed :
    \/ ThreadLoop(s)
    \/ ThreadFrame(s, TRUE)
    \/ \E r \in BOOLEAN : ThreadReadFails(s, r)
    \/ \E idx \in 1..MaxFrameIdx : OrphanRead(s, idx, FALSE)

\* thread steps whose callback schedules process_video_frame
Callbacks ==
  \E s \in Managed :
    \/ ThreadFrame(s, FALSE)
    \/ \E idx \in 1..MaxFrameIdx : OrphanRead(s, idx, TRUE)

Steps ==
  \E i \in Slots :
    \/ Zadd(i) \/ Setex(i) \/ Hgetall(i) \/ Reget(i)
    \/ HsetSummary(i) \/ Notify(i) \/ InitState(i) \/ InitSummary(i)
    \/ JoinReturns(i) \/ CleanupDelete(i) \/ CleanupStatus(i) \/ CleanupEnded(i)

Lapses == \E s \in Managed : ExpireLatest(s)

Idle == Live = {}

\* Concurrent service: requests and callbacks arrive at any time and their
\* coroutines interleave at every await.  Runs stay inside every TTL and no
\* settings are patched.
Next ==
  \/ Lifecycle \/ Frames \/ ThreadsAlone \/ Callbacks \/ Steps

Spec == Init /\ [][Next]_vars

\* Serial service: a coroutine runs to its end before the next request or
\* callback is taken; settings patches and TTL lapses fall between them.  The
\* handler threads move between coroutines and while stop() waits in join.
SeqNext ==
  \/ Idle /\ (Lifecycle \/ Frames \/ Callbacks \/ Patches \/ Lapses)
  \/ (Idle \/ LoopBlocked) /\ ThreadsAlone
  \/ Steps

SeqSpec == Init /\ [][SeqNext]_vars

\* Serial service in which the Redis calls of a start request may fail.
StartNext ==
  \/ SeqNext
  \/ \E i \in Slots : InitFails(i)

StartSpec == Init /\ [][StartNext]_vars

\* ----------------------------------------------- HumanTracker (vibrio)
\* HumanTracker.__init__(max_disappeared=10); the literal 3 of the emit test
max_disappeared == 10
StableHits == 3

\* for track in self.tracks.values(): track.time_since_update += 1
PredictNone(t) == t
Predict(t) == [t EXCEPT !.time_since_update = @ + 1]

\* a matched track: hits += 1, time_since_update = 0
Matched(t) == [t EXCEPT !.hits = @ + 1, !.time_since_update = 0]

\* TrackState(track_id=self.next_id, hits=1, time_since_update=0, ...)
NewTrack == [hits |-> 1, time_since_update |-> 0]

\* _associate_detections_to_tracks: the matches are pairs (track, detection)
\* of an assignment, so no track and no detection is in two of them; which
\* pairs are closer than max_distance depends on positions the model leaves
\* open.  A matching is a one-to-one function from some tracks to detections.
Associations(T, D) ==
  {m \in UNION {[S -> D] : S \in SUBSET T} :
     \A a, b \in DOMAIN m : m[a] = m[b] => a = b}

\* tracks_to_remove: the unmatched tracks with
\* time_since_update > self.max_disappeared
TracksToRemoveNone(tr, unmatched_tracks) == {}
TracksToRemove(tr, unmatched_tracks) ==
  {id \in unmatched_tracks : tr[id].time_since_update > max_disappeared}

\* active_tracks: hits >= 3 and time_since_update <= 1
ActiveTracks(tr) ==
  {id \in DOMAIN tr :
     tr[id].hits >= StableHits /\ tr[id].time_since_update <= 1}

\* VibrioAnalyzer.analyze_frame for a frame of stream s: detect_humans finds
\* n detections and self.tracker.update(detections) runs with matching m.
\* The analyzer is the one global vibrio_analyzer, whatever the stream.
TrackerUpdate(s, n, m) ==
  LET predicted == [id \in DOMAIN tracks |-> Predict(tracks[id])]
      updated == [id \in DOMAIN tracks |->
                    IF id \in DOMAIN m THEN Matched(predicted[id])
                                       ELSE predicted[id]]
      unmatched_detections == (1..n) \ {m[id] : id \in DOMAIN m}
      unmatched_tracks == (DOMAIN tracks) \ (DOMAIN m)
      created == next_id..(next_id + Cardinality(unmatched_detections) - 1)
      all == [id \in (DOMAIN tracks) \cup created |->
                IF id \in created THEN NewTrack ELSE updated[id]]
      removed == TracksToRemove(all, unmatched_tracks)
  IN
  /\ next_id + Cardinality(unmatched_detections) <= MaxIds
  /\ \A id \in DOMAIN m : tracks[id].hits < MaxHits
  /\ tracks' = [id \in (DOMAIN all) \ removed |-> all[id]]
  /\ next_id' = next_id + Cardinality(unmatched_detections)
  /\ upd' = [s |-> s, detections |-> n, matched |-> DOMAIN m,
             created |-> created, removed |-> removed,
             emitted |-> ActiveTracks(tracks')]
  /\ given' = [given EXCEPT ![s] = @ \cup created]
  /\ UNCHANGED << svcVars, job, extVars >>

\* frames of the streams S reach the analyzer one at a time (analyze_frame
\* has no await inside)
Analyze(S) ==
  \E s \in S, n \in 0..MaxDet :
    \E m \in Associations(DOMAIN tracks, 1..n) : TrackerUpdate(s, n, m)

\* the service starts with an empty store
TrackInit == Init /\ \A s \in Streams : hist[s] = {}

\* the tracker fed by the frames of every stream
TrackNext == Analyze(Streams)

TrackSpec == TrackInit /\ [][TrackNext]_vars

\* the tracker fed by the frames of a single stream
SoloTrackNext == Analyze(Managed)

SoloTrackSpec == TrackInit /\ [][SoloTrackNext]_vars

\* ------------------------------------------------------ frame pipeline
\* One frame at a time through process_frame / process_video_frame, with the
\* analyzers, the store and the notification sink allowed to fail.
\* Outcomes of an analyzer: "ok"; "caught", the exception is caught inside
\* analyze_frame, which returns an empty result; "raised", it escapes.
Outcomes == {"ok", "caught", "raised"}

\* asyncio.gather(..., return_exceptions=True) and the isinstance checks: a
\* raised exception becomes None in the record
GatherAborts(out) ==
  CASE out = "ok" -> "result" [] out = "caught" -> "empty"
    [] out = "raised" -> "abort"
GatherResult(out) ==
  CASE out = "ok" -> "result" [] out = "caught" -> "empty"
    [] out = "raised" -> "null"

\* _send_analytics_notification catches every exception of the post
SendRaises(fails) == IF fails THEN "raise" ELSE "sent"
SendOutcome(fails) == IF fails THEN "logged" ELSE "sent"

JobFree == job.pc \in {"idle", "done"}

\* a frame is handed to process_video_frame, or POST /analytics/process_frame
\* decodes its frame_data
FrameAccepted(kind, s, idx) ==
  /\ JobFree
  /\ Budget
  /\ job' = [NoJob EXCEPT !.kind = kind, !.s = s, !.idx = idx,
                          !.decoded = TRUE, !.pc = "analyze"]
  /\ UNCHANGED << svcVars, trkVars, extVars >>

\* POST /analytics/process_frame: b64decode raises or imdecode returns None;
\* the except branch returns AnalyticsResponse(success=False)
FrameUndecodable(s, idx) ==
  /\ JobFree
  /\ job' = [NoJob EXCEPT !.kind = "http", !.s = s, !.idx = idx,
                          !.pc = "done", !.response = "failure",
                          !.http = 200]
  /\ UNCHANGED << svcVars, trkVars, extVars >>

\* both analyzers have run and AnalyticsResult(...) is built; no error
\* argument is passed to it
FrameAnalyzed(v, m) ==
  /\ job.pc = "analyze"
  /\ IF "abort" \in {GatherResult(v), GatherResult(m)}
     THEN job' = [job EXCEPT !.vOut = v, !.mOut = m, !.pc = "done",
                    !.response = IF job.kind = "http" THEN "failure" ELSE @,
                    !.http = IF job.kind = "http" THEN 200 ELSE @]
     ELSE job' = [job EXCEPT !.vOut = v, !.mOut = m,
                    !.vibrio = GatherResult(v), !.moriarty = GatherResult(m),
                    !.pc = "store"]
  /\ UNCHANGED << svcVars, trkVars, extVars >>

\* redis_service.store_analytics(stream_id, analytics), failing at failAt:
\* a failed zadd, setex or expire is raised to the caller, whose except branch ends
\* the frame; a failure in update_stream_summary is logged there and
\* store_analytics returns normally
FrameStored(failAt) ==
  /\ job.pc = "store"
  /\ LET s == job.s
         zaddOk == failAt # "zadd"
         setexOk == failAt \notin {"zadd", "setex"}
         returns == failAt \in {"none", "summary"}
         sumOk == failAt = "none"
         fresh == DOMAIN summary[s] = {}
         base == IF fresh THEN HSet(summary[s], InitialSummary) ELSE summary[s]
     IN
     /\ hist' = IF zaddOk THEN [hist EXCEPT ![s] = @ \cup {RecordOf(job)}]
                          ELSE hist
     /\ written' = IF zaddOk THEN [written EXCEPT ![s] = Append(@, job.idx)]
                             ELSE written
     /\ latest' = IF setexOk THEN [latest EXCEPT ![s] = RecordOf(job)]
                             ELSE latest
     /\ summary' = IF sumOk
                   THEN [summary EXCEPT ![s] =
                           HSet(base, UpdatedSummary(TotalFrames(base)))]
                   ELSE summary
     /\ state' = IF sumOk /\ fresh
                 THEN [state EXCEPT ![s] = HSet(@, InitialState(EmptySettings))]
                 ELSE state
     /\ storeCount' = IF returns
                      THEN [storeCount EXCEPT ![s] =
                              (IF sumOk /\ fresh THEN 0 ELSE @) + 1]
                      ELSE storeCount
     /\ job' = [job EXCEPT
          !.storeCalls = @ + 1,
          !.stored = (IF zaddOk THEN {"history"} ELSE {}) \cup
                     (IF setexOk THEN {"latest"} ELSE {}) \cup
                     (IF sumOk THEN {"summary"} ELSE {}),
          !.pc = IF returns THEN "notify" ELSE "done",
          !.response = IF ~returns /\ job.kind = "http" THEN "failure" ELSE @,
          !.http = IF ~returns /\ job.kind = "http" THEN 200 ELSE @]
  /\ OtherStep
  /\ UNCHANGED << active_streams, handler, orphans, tasks, patched, trkVars,
                  extVars >>

\* stream_service.notify_analytics_update: one post to the core service, then
\* _check_betting_opportunities and _check_analytics_alerts; an exception
\* that reached notify_analytics_update would skip the two checks
FrameNotified(fails) ==
  /\ job.pc = "notify"
  /\ job' = [job EXCEPT
       !.sends = @ + 1,
       !.sendFailed = fails,
       !.checked = IF SendOutcome(fails) = "raise" THEN {}
                   ELSE {"opportunities", "alerts"},
       !.pc = "done",
       !.response = IF job.kind = "http" THEN "success" ELSE @,
       !.http = IF job.kind = "http" THEN 200 ELSE @]
  /\ UNCHANGED << svcVars, trkVars, extVars >>

PipeNext ==
  \/ \E kind \in {"cb", "http"}, s \in Streams, idx \in 1..MaxFrameIdx :
       FrameAccepted(kind, s, idx)
  \/ \E s \in Streams, idx \in 1..MaxFrameIdx : FrameUndecodable(s, idx)
  \/ \E v \in Outcomes, m \in Outcomes : FrameAnalyzed(v, m)
  \/ \E failAt \in {"none", "zadd", "setex", "expire", "summary"} :
       FrameStored(failAt)
  \/ \E fails \in BOOLEAN : FrameNotified(fails)

PipeSpec == Init /\ [][PipeNext]_vars

\* ----------------------------------------------------- event derivation
\* StreamService._check_betting_opportunities and _check_analytics_alerts as
\* functions of the record.  Speeds are km/h, angles degrees, processing_time
\* milliseconds, motion_energy and confidence hundredths.
Speeds == {20, 25, 50, 51}
Angles == {29, 80, 100, 151}
Joints == {"left_knee", "right_knee"}
Times == {500, 501}
Motions == {80, 81}
Timestamps == {0, 7}

SeqsUpTo(S, n) == UNION {[1..k -> S] : k \in 0..n}

\* analytics.vibrio: None, or a result with its tracks' speeds and its
\* motion energy
VibrioResults ==
  {[null |-> TRUE, speeds |-> << >>, motion_energy |-> 0]} \cup
  {[null |-> FALSE, speeds |-> sp, motion_energy |-> me] :
     sp \in SeqsUpTo(Speeds, MaxTracks), me \in Motions}

\* analytics.moriarty: None, or a result with pose_detected and the joint
\* angles that were computed
MoriartyResults ==
  {[null |-> TRUE, pose_detected |-> FALSE, joint_angles |-> EmptyHash]} \cup
  {[null |-> FALSE, pose_detected |-> pd, joint_angles |-> ja] :
     pd \in BOOLEAN, ja \in UNION {[J -> Angles] : J \in SUBSET Joints}}

Records ==
  {[timestamp |-> ts, vibrio |-> v, moriarty |-> m, processing_time |-> pt] :
     ts \in Timestamps, v \in VibrioResults, m \in MoriartyResults,
     pt \in Times}

Min(a, b) == IF a <= b THEN a ELSE b
\* max([track.speed for track in tracks], default=0.0)
MaxSpeed(sp) ==
  IF Len(sp) = 0 THEN 0
  ELSE CHOOSE x \in {sp[i] : i \in 1..Len(sp)} : \A i \in 1..Len(sp) : sp[i] <= x

\* one high_speed opportunity for every track with track.speed > 20
HighSpeedOpportunities(rec) ==
  IF rec.vibrio.null THEN {}
  ELSE {[opportunity_type |-> "high_speed", track |-> i,
         confidence |-> Min(rec.vibrio.speeds[i] * 2, 100),
         expires_at |-> rec.timestamp + 30] :
          i \in {k \in 1..Len(rec.vibrio.speeds) : rec.vibrio.speeds[k] > 20}}

\* one extreme_pose opportunity for every joint angle > 150 or < 30
ExtremePoseOpportunities(rec) ==
  IF rec.moriarty.null \/ ~rec.moriarty.pose_detected THEN {}
  ELSE {[opportunity_type |-> "extreme_pose", joint |-> j, confidence |-> 80,
         expires_at |-> rec.timestamp + 20] :
          j \in {k \in DOMAIN rec.moriarty.joint_angles :
                   \/ rec.moriarty.joint_angles[k] > 150
                   \/ rec.moriarty.joint_angles[k] < 30}}

HighProcessingTime(rec) == rec.processing_time > 500
HighSpeedAlertFrom50(rec) ==
  /\ ~rec.vibrio.null
  /\ Len(rec.vibrio.speeds) > 0
  /\ MaxSpeed(rec.vibrio.speeds) >= 50
HighSpeedAlert(rec) ==
  /\ ~rec.vibrio.null
  /\ Len(rec.vibrio.speeds) > 0
  /\ MaxSpeed(rec.vibrio.speeds) > 50
UnusualMotion(rec) == ~rec.vibrio.null /\ rec.vibrio.motion_energy > 80

\* the alerts list, in the order the checks append to it
Alerts(rec) ==
  (IF HighProcessingTime(rec)
   THEN << [alert_type |-> "high_processing_time", severity |-> "medium"] >>
   ELSE << >>) \o
  (IF HighSpeedAlert(rec)
   THEN << [alert_type |-> "high_speed", severity |-> "high"] >>
   ELSE << >>) \o
  (IF UnusualMotion(rec)
   THEN << [alert_type |-> "unusual_motion", severity |-> "medium"] >>
   ELSE << >>)

\* both checks run on one record, as notify_analytics_update runs them; the
\* result depends on that record alone, so a run derives the events of one
\* record
CheckEvents(rec) ==
  /\ ev = NoEvents
  /\ ev' = [rec |-> rec,
            high_speed |-> HighSpeedOpportunities(rec),
            pose |-> ExtremePoseOpportunities(rec),
            alerts |-> Alerts(rec)]
  /\ UNCHANGED << svcVars, trkVars, job, orchVars, feed, lateVars >>

EventNext == ev = NoEvents /\ \E rec \in Records : CheckEvents(rec)

EventSpec == TrackInit /\ [][EventNext]_vars

\* --------------------------------------------- orchestrator: health loop
\* MetacognitiveOrchestrator of src/orchestrator/main.py.
Services == {"core", "analytics", "api", "frontend"}

\* what the GET {service}/health of one probe gives
ProbeOutcomes == {"200", "4xx", "5xx", "error"}

\* check_service_health: the status recorded for an outcome
StatusOf(outcome) ==
  CASE outcome = "200" -> "healthy"
    [] outcome = "5xx" -> "unhealthy"
    [] outcome = "error" -> "unhealthy"
    [] outcome = "4xx" -> "degraded"

Unhealthy(sh) == {name \in DOMAIN sh : sh[name] = "unhealthy"}

\* analyze_system_health: len(unhealthy_services) > len(self.services) // 2
MajorityUnhealthy(sh) ==
  Cardinality(Unhealthy(sh)) > Cardinality(Services) \div 2

\* one pass of health_monitoring_loop: check_all_services_health, then
\* analyze_system_health, which calls emergency_shutdown on the test above
HealthCycle(outcome) ==
  /\ probe.n < MaxProbes
  /\ service_health' = [name \in Services |-> StatusOf(outcome[name])]
  /\ probe' = [n |-> probe.n + 1,
               prev |-> probe.cur,
               cur |-> Cardinality(Unhealthy(service_health')),
               emergency |-> MajorityUnhealthy(service_health')]
  /\ UNCHANGED << svcVars, trkVars, job, ev, system_metrics, stream_metrics,
                  issued, feed, lateVars >>

HealthNext == \E outcome \in [Services -> ProbeOutcomes] : HealthCycle(outcome)

HealthSpec == TrackInit /\ [][HealthNext]_vars

\* ------------------------------------------- orchestrator: store_metrics
\* ltrim("system_metrics", 0, 1000): the elements at indexes 0..1000 stay
TrimStop == 1000
LTrim(len, start, stop) == IF len > stop - start + 1 THEN stop - start + 1 ELSE len

\* store_metrics, failing at failAt: lpush, then ltrim; an exception is
\* logged and ends the call.  The per-stream hashes written afterwards are
\* not part of the list.
StoreMetrics(failAt) ==
  /\ system_metrics < MaxRows
  /\ system_metrics' =
       CASE failAt = "lpush" -> system_metrics
         [] failAt = "ltrim" -> system_metrics + 1
         [] failAt = "none" -> LTrim(system_metrics + 1, 0, TrimStop)
  /\ UNCHANGED << svcVars, trkVars, job, ev, service_health, probe,
                  stream_metrics, issued, feed, lateVars >>

MetricsNext == \E failAt \in {"none", "lpush", "ltrim"} : StoreMetrics(failAt)

MetricsSpec == TrackInit /\ [][MetricsNext]_vars

\* ----------------------------------------- orchestrator: decision cycle
\* thresholds of MetacognitiveOrchestrator.__init__; error rates are in
\* hundredths
max_concurrent_streams == 10
min_analytics_fps == 15
max_error_rate == 5

\* a StreamMetrics, without its stream_id
Metric(st, vc, ba, fps, er) ==
  [state |-> st, viewer_count |-> vc, betting_activity |-> ba,
   analytics_fps |-> fps, error_rate |-> er]

\* an active stream that is watched, bet on, fast and without errors
Filler == Metric("active", 9, 5, 30, 0)

\* the metrics the capacity policy reads, around its thresholds
CapacityKinds ==
  {Metric(st, vc, ba, 30, 0) :
     st \in {"active", "inactive"}, vc \in {1, 4, 5}, ba \in {1, 2}}

\* active streams around the thresholds of the performance policies
PerformanceKinds ==
  {Metric("active", vc, 0, fps, er) :
     vc \in {1, 5}, fps \in {14, 15}, er \in {5, 6}}

\* stream_metrics as collect_stream_metrics leaves it: the stream_id of an
\* entry is its place in the dict
MetricsOver(K) ==
  {v \o [i \in 1..n |-> Filler] :
     v \in SeqsUpTo(K, MaxVaried) \ {<< >>}, n \in 0..MaxFill}

\* collect_stream_metrics fills stream_metrics
CollectStreamMetrics(sm) ==
  /\ stream_metrics = << >>
  /\ stream_metrics' = sm
  /\ UNCHANGED << svcVars, trkVars, job, ev, service_health, probe,
                  system_metrics, issued, feed, lateVars >>

ActiveStreams(sm) == {i \in 1..Len(sm) : sm[i].state = "active"}
LowPriority(sm) ==
  {i \in ActiveStreams(sm) :
     sm[i].viewer_count < 5 /\ sm[i].betting_activity < 2}

\* min(low_priority_streams, key=lambda s: s.viewer_count): the first of
\* the streams with the least viewer_count
FirstOf(sm, low) == CHOOSE i \in low : \A j \in low : i <= j
MinByViewers(sm, low) ==
  CHOOSE i \in low :
    /\ \A j \in low : sm[i].viewer_count <= sm[j].viewer_count
    /\ \A j \in low : sm[j].viewer_count = sm[i].viewer_count => i <= j

\* optimize_stream_allocation: the deactivate request it posts, if any
OptimizeStreamAllocation(sm) ==
  IF /\ Cardinality(ActiveStreams(sm)) * 10 >= max_concurrent_streams * 8
     /\ LowPriority(sm) # {}
  THEN << [kind |-> "deactivate", stream_id |-> MinByViewers(sm, LowPriority(sm)),
           adjustment |-> "-"] >>
  ELSE << >>

\* optimize_analytics_performance: the settings patches it sends, stream by
\* stream; both tests are made for every stream whose state is ACTIVE
RECURSIVE OptimizeAnalyticsPerformance(_, _)
OptimizeAnalyticsPerformance(sm, i) ==
  IF i > Len(sm) THEN << >>
  ELSE
    (IF sm[i].state = "active" /\ sm[i].analytics_fps < min_analytics_fps
     THEN << [kind |-> "patch", stream_id |-> i,
              adjustment |-> "reduce_quality"] >>
     ELSE << >>) \o
    (IF sm[i].state = "active" /\ sm[i].error_rate > max_error_rate
     THEN << [kind |-> "patch", stream_id |-> i,
              adjustment |-> "increase_robustness"] >>
     ELSE << >>) \o
    OptimizeAnalyticsPerformance(sm, i + 1)

\* make_system_decisions: the four steps in order; enforce_quality_standards
\* and balance_system_load only log.  A deactivate request does not change
\* stream_metrics.
MakeSystemDecisions ==
  /\ stream_metrics # << >>
  /\ issued' = [ran |-> TRUE,
                requests |-> OptimizeStreamAllocation(stream_metrics) \o
                             OptimizeAnalyticsPerformance(stream_metrics, 1)]
  /\ UNCHANGED << svcVars, trkVars, job, ev, service_health, probe,
                  system_metrics, stream_metrics, feed, lateVars >>

CapacityNext ==
  \/ stream_metrics = << >> /\
       \E sm \in MetricsOver(CapacityKinds) : CollectStreamMetrics(sm)
  \/ MakeSystemDecisions

CapacitySpec == TrackInit /\ [][CapacityNext]_vars

DecisionNext ==
  \/ stream_metrics = << >> /\
       \E sm \in MetricsOver(PerformanceKinds) : CollectStreamMetrics(sm)
  \/ MakeSystemDecisions

DecisionSpec == TrackInit /\ [][DecisionNext]_vars

\* ------------------------------------------ StreamHandler and its source
\* One stream of VideoIngestionPipeline with what _process_frames does on
\* read failures, and PATCH /analytics/{stream_id}/settings beside it.  A
\* stop request is taken as a whole here; its steps are in StopStream above.
SourceTypes == {"file", "rtmp"}
Qualities == {"1080p", "720p"}
\* StreamConfig.reconnect_attempts
reconnect_attempts == 5
\* StreamConfig(fps=30, quality=...) built from the start request
ConfigOf(q) == [quality |-> q, fps |-> 30]
\* adjust_analytics_settings("reduce_quality")
ReduceQuality == [quality |-> "720p", fps |-> 20]

\* list_active_streams has the stream with is_running true, and /health
\* counts it in active_streams
Reported == feed.listed /\ feed.is_running

\* start_stream: StreamHandler(config, callback), handler.start(), and the
\* handler is put into active_streams
SourceStart(type, q) ==
  /\ ~feed.listed
  /\ feed' = [NoFeed EXCEPT !.listed = TRUE, !.source_type = type,
                            !.is_running = TRUE, !.thread = "loop",
                            !.opened = TRUE, !.config = ConfigOf(q),
                            !.settings = feed.settings]
  /\ UNCHANGED << svcVars, trkVars, job, ev, orchVars, lateVars >>

\* stop_stream: handler.stop() and del active_streams[stream_id];
\* cleanup_stream does not delete the settings hash
SourceStop ==
  /\ feed.listed
  /\ feed' = [NoFeed EXCEPT !.settings = feed.settings]
  /\ UNCHANGED << svcVars, trkVars, job, ev, orchVars, lateVars >>

\* update_stream_settings: hset(stream:{id}:settings, mapping=settings);
\* the handler and its config are not touched
PatchSettings(patch) ==
  /\ feed.settings # patch
  /\ feed' = [feed EXCEPT !.settings = patch]
  /\ UNCHANGED << svcVars, trkVars, job, ev, orchVars, lateVars >>

\* `while self.is_running:` with an open capture: on to capture.read()
SourceLoop ==
  /\ feed.thread = "loop"
  /\ feed' = IF ~feed.is_running
             THEN [feed EXCEPT !.thread = "exited", !.cause = "stopped"]
             ELSE [feed EXCEPT !.thread = "read"]
  /\ feed.is_running => feed.opened
  /\ UNCHANGED << svcVars, trkVars, job, ev, orchVars, lateVars >>

\* the capture is not open: _initialize_capture is run again (it opens the
\* capture or not), or the attempts are used up and the loop is left
SourceReconnect(ok) ==
  /\ feed.thread = "loop" /\ feed.is_running /\ ~feed.opened
  /\ feed' = IF feed.attempts < reconnect_attempts
             THEN [feed EXCEPT !.opened = ok, !.attempts = @ + 1]
             ELSE [feed EXCEPT !.thread = "exited", !.cause = "exhausted"]
  /\ UNCHANGED << svcVars, trkVars, job, ev, orchVars, lateVars >>

\* capture.read() gives a frame: it is resized by self.config.quality, handed
\* to the callback and paced by self.config.fps
SourceFrame ==
  /\ feed.thread = "read"
  /\ feed.frame_count < MaxFrameIdx
  /\ feed' = [feed EXCEPT !.thread = "loop", !.attempts = 0,
                          !.frame_count = @ + 1,
                          !.used = [config |-> feed.config,
                                    wanted |-> feed.settings]]
  /\ UNCHANGED << svcVars, trkVars, job, ev, orchVars, lateVars >>

\* capture.read() gives no frame: a file source leaves the loop; a live
\* source tries again (the capture staying open or not) until the attempts
\* are used up, then leaves the loop.  Nothing else is changed on leaving.
SourceReadFails(stillOpen) ==
  /\ feed.thread = "read"
  /\ feed' =
       IF feed.source_type = "file"
       THEN [feed EXCEPT !.thread = "exited", !.cause = "eof"]
       ELSE IF feed.attempts < reconnect_attempts
       THEN [feed EXCEPT !.thread = "loop", !.attempts = @ + 1,
                         !.opened = stillOpen]
       ELSE [feed EXCEPT !.thread = "exited", !.cause = "exhausted"]
  /\ UNCHANGED << svcVars, trkVars, job, ev, orchVars, lateVars >>

\* capture.read() raises: the `except Exception` of the loop body logs it
\* and counts an error; the attempt counter is not touched and the loop goes
\* round again
SourceReadRaises ==
  /\ feed.thread = "read"
  /\ feed' = [feed EXCEPT !.thread = "loop"]
  /\ UNCHANGED << svcVars, trkVars, job, ev, orchVars, lateVars >>

SourceThread ==
  \/ SourceLoop
  \/ SourceReadRaises
  \/ \E ok \in BOOLEAN : SourceReconnect(ok)
  \/ SourceFrame
  \/ \E stillOpen \in BOOLEAN : SourceReadFails(stillOpen)

SourceNext ==
  \/ \E type \in SourceTypes, q \in Qualities : SourceStart(type, q)
  \/ SourceStop
  \/ \E patch \in {ReduceQuality} : PatchSettings(patch)
  \/ SourceThread

SourceSpec == TrackInit /\ [][SourceNext]_vars

\* the handler's thread keeps running whenever it can take a step
FairSourceSpec == SourceSpec /\ WF_vars(SourceThread)

\* ------------------------- HumanTracker._associate_detections_to_tracks
\* The association on its own, as a function of the geometry of the frame.
\* A (track, detection) pair is Close (centres 20 apart, boxes overlapping
\* with IoU above the threshold), Near (50 apart, IoU not above it) or Edge
\* (exactly max_distance apart).  Confidences are tenths.
max_distance == 100
Close == [distance |-> 20, overlap |-> TRUE]
Near == [distance |-> 50, overlap |-> FALSE]
Edge == [distance |-> 100, overlap |-> FALSE]
Geometries == {Close, Near, Edge}
Confidences == {5, 9}

\* cost_matrix[i, j]
CostOf(g) == IF g.distance < max_distance THEN g.distance ELSE max_distance * 2

\* the assignments linear_sum_assignment chooses from: min(rows, cols)
\* pairs, no row and no column twice
Assignments(r, c) ==
  {m \in UNION {[S -> 1..c] : S \in SUBSET (1..r)} :
     /\ Cardinality(DOMAIN m) = Min(r, c)
     /\ \A a, b \in DOMAIN m : m[a] = m[b] => a = b}

RECURSIVE TotalCost(_, _, _)
TotalCost(geo, m, S) ==
  IF S = {} THEN 0
  ELSE LET i == CHOOSE x \in S : TRUE
       IN CostOf(geo[i][m[i]]) + TotalCost(geo, m, S \ {i})

\* linear_sum_assignment(cost_matrix): an assignment of least total cost;
\* which one of several is not fixed by the cost matrix
Optimal(geo, r, c) ==
  {m \in Assignments(r, c) :
     \A o \in Assignments(r, c) :
       TotalCost(geo, m, DOMAIN m) <= TotalCost(geo, o, DOMAIN o)}

\* _associate_detections_to_tracks for r tracks and c detections
Associate(r, c, geo, conf, m) ==
  /\ ~assoc.called
  /\ m \in (IF r = 0 \/ c = 0 THEN {<< >>} ELSE Optimal(geo, r, c))
  /\ LET matches == {<< i, m[i] >> : i \in {k \in DOMAIN m :
                                              CostOf(geo[k][m[k]]) < max_distance}}
     IN assoc' = [called |-> TRUE, tracks |-> r, detections |-> c,
                  geo |-> geo, confidence |-> conf,
                  matches |-> matches,
                  unmatched_tracks |-> (1..r) \ {p[1] : p \in matches},
                  unmatched_detections |-> (1..c) \ {p[2] : p \in matches}]
  /\ UNCHANGED << svcVars, trkVars, job, ev, orchVars, feed, pose, stats, watch >>

AssocNext ==
  /\ ~assoc.called
  /\ \E r \in 0..MaxAssoc, c \in 0..MaxAssoc :
       \E geo \in [1..r -> [1..c -> Geometries]], conf \in [1..c -> Confidences] :
         \E m \in UNION {[S -> 1..c] : S \in SUBSET (1..r)} :
           Associate(r, c, geo, conf, m)

AssocSpec == TrackInit /\ [][AssocNext]_vars

\* ------------------------------------------- PoseAnalyzer.analyze_pose
\* One joint, left_knee, with its three landmarks.  Visibilities are tenths
\* (5 is 0.5); x positions are pixels; only the ankle moves.
LandmarkNames == {"left_hip", "left_knee", "left_ankle"}
Visibilities == {4, 5, 6}
Positions == {0, 1}
frame_rate == 30
LandmarkDicts ==
  {l \in [LandmarkNames -> [x : Positions, visibility : Visibilities]] :
     l["left_hip"].x = 0 /\ l["left_knee"].x = 0}

\* _calculate_biomechanics: the joints whose angle is reported
JointAngles(landmarks) ==
  IF \A name \in LandmarkNames : landmarks[name].visibility > 5
  THEN {"left_knee"} ELSE {}

\* _calculate_velocities: (x - previous x) / frame_time per landmark, zero
\* when there is no previous pose
Velocities(landmarks, previous) ==
  IF previous = NoLandmarks
  THEN [name \in LandmarkNames |-> 0]
  ELSE [name \in LandmarkNames |->
          (landmarks[name].x - previous[name].x) * frame_rate]

\* analyze_pose on a frame in which a pose is found, as MoriartyPipeline
\* reports it
AnalyzePose(landmarks) ==
  /\ pose.poses < MaxPoses
  /\ pose' = [poses |-> pose.poses + 1,
              previous_landmarks |-> landmarks,
              pose_detected |-> TRUE,
              joint_angles |-> JointAngles(landmarks),
              velocities |-> Velocities(landmarks, pose.previous_landmarks)]
  /\ UNCHANGED << svcVars, trkVars, job, ev, orchVars, feed, assoc, stats, watch >>

\* analyze_pose on a frame without a pose: previous_landmarks is kept
AnalyzeNoPose ==
  /\ pose.poses < MaxPoses
  /\ pose.pose_detected \/ pose.poses = 0
  /\ pose' = [pose EXCEPT !.pose_detected = FALSE, !.joint_angles = {},
                          !.velocities = << >>]
  /\ UNCHANGED << svcVars, trkVars, job, ev, orchVars, feed, assoc, stats, watch >>

PoseNext ==
  \/ \E landmarks \in LandmarkDicts : AnalyzePose(landmarks)
  \/ AnalyzeNoPose

PoseSpec == TrackInit /\ [][PoseNext]_vars

\* ------------------------ RedisService.update_stream_summary: averages
\* The arithmetic is exact: fractions in lowest terms stand for the floats.
\* processing_time is given in tenths of a second.
ProcessingTimes == {1, 2, 3}
Analytics == [processing_time : ProcessingTimes, has_detections : BOOLEAN,
              has_pose : BOOLEAN]

RECURSIVE Gcd(_, _)
Gcd(a, b) == IF b = 0 THEN a ELSE Gcd(b, a % b)

Frac(p, q) == LET g == Gcd(p, q) IN IF p = 0 THEN Zero ELSE << p \div g, q \div g >>
FracAdd(a, b) == Frac(a[1] * b[2] + b[1] * a[2], a[2] * b[2])
FracTimes(a, n) == Frac(a[1] * n, a[2])
FracOver(a, n) == Frac(a[1], a[2] * n)
Indicator(b) == IF b THEN << 1, 1 >> ELSE Zero

\* (avg * total_frames + x) / total_frames: the old average weighted with
\* the new count
DoubleCounted(avg, total_frames, x) ==
  FracOver(FracAdd(FracTimes(avg, total_frames), x), total_frames)

\* (avg * (total_frames - 1) + x) / total_frames
NewAverage(avg, total_frames, x) ==
  FracOver(FracAdd(FracTimes(avg, total_frames - 1), x), total_frames)

\* update_stream_summary for one record, the summary being present
UpdateAverages(analytics) ==
  /\ stats.total_frames < MaxStores
  /\ LET total_frames == stats.total_frames + 1
         new_avg == NewAverage(stats.avg_processing_time, total_frames,
                               Frac(analytics.processing_time, 10))
     IN stats' =
          [total_frames |-> total_frames,
           avg_processing_time |-> new_avg,
           detection_rate |->
             NewAverage(stats.detection_rate, total_frames,
                        Indicator(analytics.has_detections)),
           pose_detection_rate |->
             NewAverage(stats.pose_detection_rate, total_frames,
                        Indicator(analytics.has_pose)),
           avg_fps |-> IF new_avg[1] > 0 THEN Frac(new_avg[2], new_avg[1]) ELSE Zero,
           since |-> Append(stats.since, analytics)]
  /\ UNCHANGED << svcVars, trkVars, job, ev, orchVars, feed, assoc, pose, watch >>

\* initialize_stream: the averages start again
InitializeAverages ==
  /\ stats.total_frames > 0
  /\ stats' = InitialStats
  /\ UNCHANGED << svcVars, trkVars, job, ev, orchVars, feed, assoc, pose, watch >>

AverageNext ==
  \/ \E analytics \in Analytics : UpdateAverages(analytics)
  \/ InitializeAverages

AverageSpec == TrackInit /\ [][AverageNext]_vars

\* -------------------- supervisor: stream_metrics over several collections
\* collect_stream_metrics and make_system_decisions in turn, the listing of
\* the core service changing from one collection to the next.
WatchIds == 1..MaxListed
WatchMetrics == [state : {"active", "inactive"}, analytics_fps : {14, 30}]
Listings == UNION {[S -> WatchMetrics] : S \in SUBSET WatchIds}

\* /api/streams answers 200 with a listing: an entry of stream_metrics is
\* written for every listed stream, the other entries stay
CollectListing(listing) ==
  /\ watch' = [stream_metrics |->
                 [id \in DOMAIN watch.stream_metrics \cup DOMAIN listing |->
                    IF id \in DOMAIN listing THEN listing[id]
                    ELSE watch.stream_metrics[id]],
               listed |-> DOMAIN listing,
               answered |-> TRUE,
               requests |-> {}]
  /\ UNCHANGED << svcVars, trkVars, job, ev, orchVars, feed, assoc, pose, stats >>

\* /api/streams answers with another status, or the request raises
CollectUnanswered ==
  /\ watch' = [watch EXCEPT !.answered = FALSE, !.requests = {}]
  /\ UNCHANGED << svcVars, trkVars, job, ev, orchVars, feed, assoc, pose, stats >>

\* optimize_analytics_performance: the streams it sends reduce_quality for
WatchDecisions ==
  /\ watch' = [watch EXCEPT !.requests =
                 {id \in DOMAIN watch.stream_metrics :
                    /\ watch.stream_metrics[id].state = "active"
                    /\ watch.stream_metrics[id].analytics_fps < min_analytics_fps}]
  /\ UNCHANGED << svcVars, trkVars, job, ev, orchVars, feed, assoc, pose, stats >>

WatchNext ==
  \/ \E listing \in Listings : CollectListing(listing)
  \/ CollectUnanswered
  \/ WatchDecisions

WatchSpec == TrackInit /\ [][WatchNext]_vars

\* ================================================================ claims
\* C1: for every stream, the frame_idx of the records written by
\* store_analytics strictly increases in write order, whatever the
\* interleaving of callback frames and POST /analytics/process_frame requests.
C1_FrameIdxIncreasing ==
  \A s \in Streams : \A k \in 1..(Len(written[s]) - 1) :
    written[s][k] < written[s][k + 1]

C3_NoLostIncrement ==
  [][\A s \in Streams :
       storeCount'[s] = storeCount[s] + 1
         => TotalFrames(summary'[s]) = TotalFrames(summary[s]) + 1]_vars

\* the k-th zadd of stream s wrote a frame_idx that no other zadd wrote
WrittenOnce(s, k) ==
  \A m \in 1..Len(written[s]) : written[s][m] = written[s][k] => m = k

\* the store_analytics call that wrote frame_idx idx of stream s has returned
Returned(s, idx) ==
  \A i \in FrameTasks(s) : tasks[i].idx = idx => tasks[i].pc = "notify"

\* C4: once store_analytics(S, r) has returned and the latest record of S is
\* r, the latest record changes only when its TTL lapses or to a record
\* written after r; it never reverts to a record older than r.
C4_LatestHolds ==
  [][\A s \in Streams : \A k \in 1..Len(written[s]) :
       ( /\ WrittenOnce(s, k)
         /\ latest[s].idx = written[s][k]
         /\ Returned(s, written[s][k])
         /\ latest'[s] # latest[s] )
       => \/ latest'[s] = NoRecord
          \/ \E m \in (k + 1)..Len(written[s]) :
               written[s][m] = latest'[s].idx]_vars

CleanupStep(i) == CleanupDelete(i) \/ CleanupStatus(i) \/ CleanupEnded(i)

C6_FreshAfterCleanup ==
  prevStop.phase = "started" =>
    /\ summary[prevStop.s] = InitialSummary
    /\ hist[prevStop.s] = {}
    /\ latest[prevStop.s] = NoRecord

\* C7: a start request for a stream that is already active answers success,
\* as the first one did.
C7_StartIdempotent ==
  (reply.op = "start" /\ reply.wasActive) => reply.success

C9_NoWriteAfterStop ==
  [][prevStop.phase = "stop" =>
       LET s == prevStop.s IN
       /\ written'[s] = written[s]
       /\ latest'[s] \in {latest[s], NoRecord}
       /\ TotalFrames(summary'[s]) = TotalFrames(summary[s])]_vars

C11_TrackerPerStream ==
  [][\A s \in Streams :
       upd'.s = s /\ upd' # upd => (DOMAIN tracks) \subseteq given[s]]_vars

\* C12: every accepted frame (handed to process_video_frame, or decoded by
\* process_frame) leads to exactly one store_analytics call: none before the
\* record is built, one from then on, whatever fails on the way.
C12_OneStorePerFrame ==
  /\ job.pc \in {"analyze", "store"} => job.storeCalls = 0
  /\ job.pc = "notify" \/ (job.pc = "done" /\ job.decoded) => job.storeCalls = 1
C12_Witness ==
  /\ job.pc = "done" /\ job.decoded /\ job.storeCalls = 1
  /\ "raised" \in {job.vOut, job.mOut}
  /\ job.stored # {"history", "latest", "summary"}

\* C13: when an analyzer fails on a frame, the record's field of that branch
\* is null and its error field is set, and the other branch's result is kept.
C13_FailedBranchNull ==
  job.pc \in {"store", "notify", "done"} /\ job.decoded =>
    /\ job.vibrio = (IF job.vOut = "ok" THEN "result" ELSE "null")
    /\ job.moriarty = (IF job.mOut = "ok" THEN "result" ELSE "null")
    /\ job.error = (IF job.vOut = "ok" /\ job.mOut = "ok" THEN "none" ELSE "set")

\* C14: a notification is sent and events are derived only for a record that
\* was fully stored: history entry, latest copy and summary.
C14_NotifyOnlyStored ==
  job.sends > 0 \/ job.checked # {} =>
    job.stored = {"history", "latest", "summary"}

\* C15: process_frame with undecodable frame data answers HTTP 400 and makes
\* no store call and no notification.
C15_Undecodable400 ==
  job.pc = "done" /\ ~job.decoded =>
    job.http = 400 /\ job.storeCalls = 0 /\ job.sends = 0 /\ job.checked = {}

\* C16: a notification that fails is attempted exactly once, does not fail
\* the frame, and the opportunities and alerts of the record are still
\* derived and stored.
C16_NotifyFailureContained ==
  job.pc = "done" /\ job.sendFailed =>
    /\ job.sends = 1
    /\ job.checked = {"opportunities", "alerts"}
    /\ job.kind = "http" => job.response = "success"
C16_Witness ==
  /\ job.pc = "done" /\ job.sendFailed /\ job.kind = "http"
  /\ job.checked = {"opportunities", "alerts"}

\* C17: for every track that exists before and after an update, its
\* time_since_update afterwards is 0 if the update matched it to a detection
\* and exactly one more than before otherwise.
C17_TimeSinceUpdate ==
  [][\A id \in (DOMAIN tracks) \cap (DOMAIN tracks') :
       tracks'[id].time_since_update =
         IF id \in upd'.matched THEN 0
         ELSE tracks[id].time_since_update + 1]_vars

\* an update matched one track and left another, already unmatched before,
\* unmatched again
C17_Witness ==
  \E a, b \in DOMAIN tracks :
    /\ a \in upd.matched /\ tracks[a].time_since_update = 0
    /\ b \notin upd.matched /\ tracks[b].time_since_update >= 2

\* C18: no track with time_since_update above the tracker's limit
\* (max_disappeared) is retained after an update, and every emitted track is
\* a retained one; a removed track is gone.
C18_OldTracksReaped ==
  /\ \A id \in DOMAIN tracks : tracks[id].time_since_update <= max_disappeared
  /\ upd.emitted \subseteq DOMAIN tracks
  /\ upd.removed \cap DOMAIN tracks = {}

\* an update removed a track that had gone unmatched for more than
\* max_disappeared updates, while another track stays
C18_Witness ==
  /\ upd.removed # {}
  /\ DOMAIN tracks # {}

\* C19: an update emits exactly the retained tracks with hits >= min_hits (3)
\* or time_since_update = 0.
C19_EmitRule ==
  upd.emitted =
    {id \in DOMAIN tracks :
       tracks[id].hits >= StableHits \/ tracks[id].time_since_update = 0}

\* C20: each unmatched detection spawns exactly one new track; the first
\* track of a stream gets track_id 0; every later track of the stream gets an
\* id greater than all ids handed out for it before; no id is handed out
\* twice.
C20_TrackIdsPerStream ==
  [][\A s \in Streams :
       (upd'.s = s /\ upd' # upd) =>
         /\ Cardinality(upd'.created) =
              upd'.detections - Cardinality(upd'.matched)
         /\ (given[s] = {} /\ upd'.created # {}) => 0 \in upd'.created
         /\ \A new \in upd'.created :
              /\ \A old \in given[s] : new > old
              /\ \A o \in Streams : new \notin given[o]]_vars

\* C21: a record yields a high_speed opportunity iff its maximum track speed
\* is above 20 km/h, exactly one per record, with confidence min(speed/50, 1)
\* and expires_at = timestamp + 30.
C21_HighSpeedOpportunity ==
  ev # NoEvents =>
    LET top == MaxSpeed(ev.rec.vibrio.speeds) IN
    /\ ev.high_speed # {} <=> top > 20
    /\ Cardinality(ev.high_speed) <= 1
    /\ \A o \in ev.high_speed :
         o.confidence = Min(top * 2, 100) /\ o.expires_at = ev.rec.timestamp + 30

BothKnees(rec) ==
  /\ ~rec.moriarty.null
  /\ rec.moriarty.pose_detected
  /\ DOMAIN rec.moriarty.joint_angles = Joints

\* C22: a record with a detected pose and both knee angles yields a
\* deep_crouch opportunity iff the mean of the two is below 90 degrees, with
\* expires_at = timestamp + 20.
C22_DeepCrouchOpportunity ==
  ev # NoEvents /\ BothKnees(ev.rec) =>
    LET ja == ev.rec.moriarty.joint_angles
        crouch == {o \in ev.pose : o.opportunity_type = "deep_crouch"}
    IN /\ crouch # {} <=> ja["left_knee"] + ja["right_knee"] < 180
       /\ \A o \in crouch : o.expires_at = ev.rec.timestamp + 20

AlertCount(kind) ==
  Cardinality({i \in 1..Len(ev.alerts) : ev.alerts[i].alert_type = kind})
Severity(kind) ==
  {ev.alerts[i].severity : i \in {k \in 1..Len(ev.alerts) :
                                    ev.alerts[k].alert_type = kind}}

C24_ShutdownAfterTwoProbes ==
  probe.n > 0 =>
    (probe.emergency <=>
       /\ probe.cur > Cardinality(Services) \div 2
       /\ probe.n > 1
       /\ probe.prev > Cardinality(Services) \div 2)

\* C25: after any number of store_metrics calls the system-metrics log holds
\* at most 1000 rows.
C25_MetricsLogBounded == system_metrics <= 1000

RequestsFor(i) ==
  {k \in 1..Len(issued.requests) : issued.requests[k].stream_id = i}

\* C26: one decision cycle issues at most one corrective request per stream:
\* a stream deactivated for capacity gets no settings patch, a stream patched
\* for low FPS gets no robustness patch.
C26_OneActionPerStream ==
  issued.ran =>
    \A i \in 1..Len(stream_metrics) : Cardinality(RequestsFor(i)) <= 1

Deactivated ==
  {k \in 1..Len(issued.requests) : issued.requests[k].kind = "deactivate"}

\* C27: in a decision cycle with at least 0.8 x max_concurrent_streams
\* active streams, exactly one stream is deactivated, one with the least
\* viewer_count among the active streams with viewer_count < 5 and
\* betting_activity < 2; below the threshold, or with no such stream, none.
C27_CapacityPolicy ==
  issued.ran =>
    LET sm == stream_metrics
        low == LowPriority(sm)
    IN IF Cardinality(ActiveStreams(sm)) * 10 >= 8 * max_concurrent_streams
          /\ low # {}
       THEN /\ Cardinality(Deactivated) = 1
            /\ \A k \in Deactivated :
                 /\ issued.requests[k].stream_id \in low
                 /\ \A j \in low :
                      sm[issued.requests[k].stream_id].viewer_count
                        <= sm[j].viewer_count
       ELSE Deactivated = {}
C27_Witness ==
  /\ issued.ran
  /\ Cardinality(ActiveStreams(stream_metrics)) = 8
  /\ Cardinality(Deactivated) = 1
  /\ stream_metrics[1].state = "active"
  /\ stream_metrics[1].viewer_count = 4
  /\ stream_metrics[1].betting_activity = 1
  /\ \A k \in Deactivated : issued.requests[k].stream_id = 2

\* C28: a frame that starts processing after update_settings has returned is
\* read and analysed with the patched settings.
C28_PatchedSettingsUsed ==
  feed.used # NoFrame /\ feed.used.wanted # NoPatch =>
    feed.used.config = feed.used.wanted

\* C29: a file source that has reached its end leaves the active state on
\* its own: without a stop call it eventually is no longer reported as
\* active/running.
C29_FileEndDeactivates ==
  (feed.cause = "eof") ~> ~Reported

\* C30: once the reconnect attempts of a source are used up, the stream is no
\* longer reported as active/running in any later state, until a stop.
C30_ErrorAfterExhaustion ==
  [][feed.cause = "exhausted" => ~(feed'.listed /\ feed'.is_running)]_vars

\* a frame was read, or the stream was stopped or started
FrameOrRestart ==
  \/ SourceFrame
  \/ SourceStop
  \/ \E type \in SourceTypes, q \in Qualities : SourceStart(type, q)

\* C31: when the source never recovers (no frame is read any more, and the
\* stream is neither stopped nor started again), the frame loop ends,
\* whatever way the reads fail.
C31_LoopTerminates ==
  \/ []<><<FrameOrRestart>>_vars
  \/ <>[](feed.thread \notin {"loop", "read"})

\* C32: the association is a gated one-to-one matching: every matched pair
\* has IoU above the threshold, no detection and no track is in two matched
\* pairs, and matched pairs, unmatched detections and unmatched tracks
\* partition the detections and the tracks.
C32_GatedMatching ==
  assoc.called =>
    /\ \A p \in assoc.matches : assoc.geo[p[1]][p[2]].overlap
    /\ \A p, q \in assoc.matches : (p[1] = q[1] \/ p[2] = q[2]) => p = q
    /\ assoc.unmatched_tracks = (1..assoc.tracks) \ {p[1] : p \in assoc.matches}
    /\ assoc.unmatched_detections =
         (1..assoc.detections) \ {p[2] : p \in assoc.matches}

\* detection e is as good a partner for track i as detection d is
SameGeometry(i, d, e) == assoc.geo[i][d] = assoc.geo[i][e]

\* C33: when two detections are equally placed for a track, the one with the
\* higher confidence is matched to it, and with equal confidences the one
\* with the lower index.
C33_TieBreak ==
  assoc.called /\ assoc.tracks = 1 =>
    \A p \in assoc.matches :
      \A e \in 1..assoc.detections :
        e # p[2] /\ SameGeometry(p[1], p[2], e) =>
          \/ assoc.confidence[p[2]] > assoc.confidence[e]
          \/ assoc.confidence[p[2]] = assoc.confidence[e] /\ p[2] < e

\* C34: a joint angle is absent when any of its three landmarks has
\* visibility below 0.5, and reported when all three have visibility of at
\* least 0.5, exactly 0.5 included.
C34_AngleVisibility ==
  pose.pose_detected =>
    ("left_knee" \in pose.joint_angles
       <=> \A name \in LandmarkNames : pose.previous_landmarks[name].visibility >= 5)

\* C35: velocities are never made up: with fewer than three poses seen no
\* velocity is reported, and with three poses there is one velocity for each
\* landmark.
C35_NoVelocityBeforeThreePoses ==
  pose.pose_detected =>
    /\ pose.poses < 3 => pose.velocities = << >>
    /\ pose.poses = 3 => DOMAIN pose.velocities = LandmarkNames

\* the sum of the processing times of the records of a sequence
RECURSIVE SumTimes(_)
SumTimes(recs) ==
  IF recs = << >> THEN 0 ELSE recs[1].processing_time + SumTimes(Tail(recs))

\* how many records of a sequence have the given flag set
CountOf(recs, flag) == Cardinality({i \in DOMAIN recs : recs[i][flag]})

C37_FailedStartLeavesNothing ==
  (reply.op = "start" /\ ~reply.success /\ ~reply.wasActive) =>
    /\ reply.s \notin active_streams
    /\ ~handler[reply.s].is_running

\* C38: store_analytics is all or nothing: when it raises, the history, the
\* latest record and the summary are as before the call, and when it returns
\* normally the record is in the history, is the latest record and has been
\* counted in the summary.
C38_StoreAllOrNothing ==
  [][job.pc = "store" /\ job'.pc # "store" =>
       /\ job'.pc = "done" =>
            /\ job'.stored = {}
            /\ hist' = hist /\ latest' = latest /\ summary' = summary
       /\ job'.pc = "notify" => job'.stored = {"history", "latest", "summary"}]_vars

\* the streams the supervisor counts as active
CountedActive ==
  {id \in DOMAIN watch.stream_metrics : watch.stream_metrics[id].state = "active"}

\* C39: stream_metrics describes only streams of the latest answered
\* listing: a stream that is no longer listed has no entry, is not counted as
\* active and is sent no request.
C39_OnlyListedStreams ==
  /\ DOMAIN watch.stream_metrics \subseteq watch.listed
  /\ CountedActive \subseteq watch.listed
  /\ watch.requests \subseteq watch.listed

\* C40: stop() releases the capture only after the frame thread has ended:
\* when stop() has returned no thread of the stream is left inside
\* capture.read(), so none reads or calls the frame callback afterwards,
\* however slow the thread is.
C40_StopAfterThreadEnded ==
  \A s \in Streams : s \notin active_streams => orphans[s] = {}

====
